---- MODULE Spec2Model ----
(***************************************************************************)
(* streamlit_app.py: the message sentiment pipeline of the script.         *)
(*                                                                         *)
(* One run of the script is the sequence of its statements:                *)
(*   pd.read_sql (l.81)  ->  get_analyzer() (l.119)  ->                    *)
(*   message.apply(add_scores, axis=1) (l.148)  ->  the sent and received  *)
(*   extremes (l.169-190)  ->  groupby('id').mean() (l.197).               *)
(* An exception ends the run.  Streamlit runs the script again from the    *)
(* top on every interaction; only the st.experimental_singleton cache      *)
(* survives from one run to the next.  The statements that only display    *)
(* (the schema listing, value_counts, the text_area score, st.write,       *)
(* st.bar_chart) bind nothing the pipeline reads and are left out.         *)
(*                                                                         *)
(* Data frames are modelled as (columns, index labels, rows); the scores   *)
(* are binary floating point numbers rounded to nearest, ties to even, as  *)
(* float64 is, with FloatPrecision significant bits.                       *)
(***************************************************************************)
EXTENDS Integers, Sequences, FiniteSets

VARIABLES
    pc,                      \* the statement the run is at, "done" or "error"
    exception,               \* the exception that ended the run, if any
    singleton_cache,         \* st.experimental_singleton's cache of get_analyzer
    initializations,         \* how often the body of get_analyzer has run
    message,                 \* l.81
    analyzer,                \* l.119
    scored_message,          \* l.148
    most_positive_sent,      \* l.172
    least_positive_sent,     \* l.173
    most_positive_received,  \* l.182
    least_positive_received, \* l.183
    compound_scores          \* l.197

vars == <<pc, exception, singleton_cache, initializations, message, analyzer,
          scored_message, most_positive_sent, least_positive_sent,
          most_positive_received, least_positive_received,
          compound_scores>>

\* ---------------------------------------------------------------- bounds
\* rows of the message table
MaxLen == 3
\* significant bits of a float (float64 has 53)
FloatPrecision == 4
\* a float is a whole number of units of 2^-FloatScale, the smallest magnitude
FloatScale == 12

\* ---------------------------------------------------------------- floats
RECURSIVE Pow2(_)
Pow2(k) == IF k <= 0 THEN 1 ELSE 2 * Pow2(k - 1)

Abs(x) == IF x < 0 THEN -x ELSE x

FZero == 0
FOne == Pow2(FloatScale)

\* 2^FloatPrecision: a float's significand is below it
SignificandLimit == Pow2(FloatPrecision)

\* the rational n / d (n >= 0, d > 0) rounded to FloatPrecision significant bits
\* and to whole units, to nearest, ties to even
RECURSIVE RoundPositive(_, _)
RoundPositive(n, d) ==
    IF n >= d * SignificandLimit THEN 2 * RoundPositive(n, 2 * d)
    ELSE LET q == n \div d
             r == n % d
         IN  IF 2 * r > d \/ (2 * r = d /\ q % 2 = 1) THEN q + 1 ELSE q

\* RoundPositive(n, 1) tabulated over the magnitudes a sum of the table's scores
\* can take
RoundedUnits == [n \in 0..(2 * (MaxLen + 1) * FOne) |-> RoundPositive(n, 1)]

Round(n) == IF n >= 0 THEN RoundedUnits[n] ELSE -RoundedUnits[-n]

FAdd(a, b) == Round(a + b)

FSub(a, b) == Round(a - b)

FDiv(a, count) ==
    IF a >= 0 THEN RoundPositive(a, count) ELSE -RoundPositive(-a, count)

FLess(a, b) == a < b

\* ---------------------------------------------------------------- inputs
\* SQL NULL in the text column (None in the frame; pd.isna is true of it)
None == "<NULL>"

Texts == {"", "wow", "ugh"}

Handles == {"+15550100", "pal@example.com"}

\* the rows "SELECT text, is_from_me, h.id, datetime(...) as 'date'" can yield; the
\* date of a row is its position in the result
MessageRows ==
    [text : Texts \cup {None}, is_from_me : {0, 1}, id : Handles]

\* the rows whose text has words of the lexicon
WordedRows ==
    [text : {"wow", "ugh"}, is_from_me : {0, 1}, id : Handles]

\* a table of the given rows, dated by position
Table(t) ==
    [i \in 1..Len(t) |->
       [text |-> t[i].text, is_from_me |-> t[i].is_from_me, id |-> t[i].id,
        date |-> i]]

Scores(neg, neu, pos, compound) ==
    [neg |-> neg, neu |-> neu, pos |-> pos, compound |-> compound]

\* what SentimentIntensityAnalyzer.polarity_scores may answer: the lexicon is
\* downloaded, so the analyzer is any function of the text among these
ZeroScores == Scores(FZero, FZero, FZero, FZero)
NeutralScores == Scores(FZero, FOne, FZero, FZero)
\* 0.5, 0.5 and a compound of 13/16; 0.25, 0.75 and a compound of -9/32
PositiveScores ==
    Scores(FZero, Pow2(FloatScale - 1), Pow2(FloatScale - 1), 13 * Pow2(FloatScale - 4))
NegativeScores ==
    Scores(Pow2(FloatScale - 2), 3 * Pow2(FloatScale - 2), FZero, -9 * Pow2(FloatScale - 5))

Lexicons ==
    { f \in [Texts -> {ZeroScores, NeutralScores, PositiveScores, NegativeScores}] :
        /\ f[""] \in {ZeroScores, NeutralScores}
        /\ f["wow"] = PositiveScores
        /\ f["ugh"] = NegativeScores }

\* ---------------------------------------------------------------- pandas
ScoreColumns == {"negative", "neutral", "positive", "compound"}

Frame(columns, index, rows) ==
    [columns |-> columns, index |-> index, rows |-> rows]

RangeIndex(n) == [k \in 1..n |-> k - 1]

\* pd.read_sql of the four selected columns
read_sql(table) ==
    Frame({"text", "is_from_me", "id", "date"}, RangeIndex(Len(table)), table)

isna(value) == value = None

polarity_scores(an, text) == an.lexicon[text]

\* add_scores with raw_text defaulting to a placeholder word instead of ""
add_scores_placeholder(an, df) ==
    LET raw_text == IF ~isna(df.text) THEN df.text ELSE "wow"
        result == polarity_scores(an, raw_text)
    IN  [text |-> df.text, is_from_me |-> df.is_from_me, id |-> df.id,
         date |-> df.date, negative |-> result.neg, neutral |-> result.neu,
         positive |-> result.pos, compound |-> result.compound]

add_scores(an, df) ==
    LET raw_text == IF ~isna(df.text) THEN df.text ELSE ""
        result == polarity_scores(an, raw_text)
    IN  [text |-> df.text, is_from_me |-> df.is_from_me, id |-> df.id,
         date |-> df.date, negative |-> result.neg, neutral |-> result.neu,
         positive |-> result.pos, compound |-> result.compound]

\* apply that leaves out the rows whose text is missing
apply_dropna(an, frame) ==
    LET kept == SelectSeq([i \in 1..Len(frame.rows) |-> i],
                          LAMBDA i : ~isna(frame.rows[i].text))
    IN  IF Len(frame.rows) = 0 THEN frame
        ELSE Frame(frame.columns \cup ScoreColumns,
                   [k \in 1..Len(kept) |-> frame.index[kept[k]]],
                   [k \in 1..Len(kept) |-> add_scores(an, frame.rows[kept[k]])])

\* apply that stacks the results last row first
apply_reversed(an, frame) ==
    LET n == Len(frame.rows)
    IN  IF n = 0 THEN frame
        ELSE Frame(frame.columns \cup ScoreColumns, frame.index,
                   [i \in 1..n |-> add_scores(an, frame.rows[n + 1 - i])])

\* DataFrame.apply(add_scores, axis=1): one call per row, the results stacked in
\* row order under the same index; of a frame without rows, a copy of the frame
\* (add_scores is never applied, so no column is added)
apply(an, frame) ==
    IF Len(frame.rows) = 0 THEN frame
    ELSE Frame(frame.columns \cup ScoreColumns, frame.index,
               [i \in 1..Len(frame.rows) |-> add_scores(an, frame.rows[i])])

\* frame.loc[frame.is_from_me == flag]: the matching rows, in order, under their
\* labels
loc(frame, flag) ==
    LET kept == SelectSeq([i \in 1..Len(frame.rows) |-> i],
                          LAMBDA i : frame.rows[i].is_from_me = flag)
    IN  Frame(frame.columns,
              [k \in 1..Len(kept) |-> frame.index[kept[k]]],
              [k \in 1..Len(kept) |-> frame.rows[kept[k]]])

\* the same without the relabelling: the rows keep the labels of scored_message
keep_index(frame) == frame

\* DataFrame.reset_index(): labels 0..n-1, the old labels in a column "index"
reset_index(frame) ==
    Frame(frame.columns \cup {"index"}, RangeIndex(Len(frame.rows)),
          [k \in 1..Len(frame.rows) |->
             LET r == frame.rows[k]
             IN  [index |-> frame.index[k], text |-> r.text,
                  is_from_me |-> r.is_from_me, id |-> r.id, date |-> r.date,
                  negative |-> r.negative, neutral |-> r.neutral,
                  positive |-> r.positive, compound |-> r.compound]])

\* a call's outcome: the row it returns, or the exception it raises
Returned(row) == [exc |-> "", row |-> <<row>>]
Raised(type) == [exc |-> type, row |-> <<>>]

\* the label of the last row holding the maximum
idxmax_last(frame) ==
    LET n == Len(frame.rows)
        c(i) == frame.rows[i].compound
        p == CHOOSE i \in 1..n :
                 /\ \A j \in 1..n : ~FLess(c(i), c(j))
                 /\ \A j \in (i + 1)..n : FLess(c(j), c(i))
    IN  frame.index[p]

\* frame.compound.idxmax(): the label of the first row holding the maximum
idxmax(frame) ==
    LET n == Len(frame.rows)
        c(i) == frame.rows[i].compound
        p == CHOOSE i \in 1..n :
                 /\ \A j \in 1..n : ~FLess(c(i), c(j))
                 /\ \A j \in 1..(i - 1) : FLess(c(j), c(i))
    IN  frame.index[p]

\* frame.compound.idxmin(): the label of the first row holding the minimum
idxmin(frame) ==
    LET n == Len(frame.rows)
        c(i) == frame.rows[i].compound
        p == CHOOSE i \in 1..n :
                 /\ \A j \in 1..n : ~FLess(c(j), c(i))
                 /\ \A j \in 1..(i - 1) : FLess(c(i), c(j))
    IN  frame.index[p]

\* frame.iloc[position]: the row at a 0-based position
iloc(frame, position) ==
    IF position \in 0..(Len(frame.rows) - 1)
    THEN Returned(frame.rows[position + 1])
    ELSE Raised("IndexError")

\* an extremum that answers an all-zero row when there is nothing to pick from
most_positive_default(frame) ==
    IF Len(frame.rows) = 0
    THEN Returned([index |-> 0, text |-> "", is_from_me |-> 0, id |-> "",
                   date |-> 0, negative |-> FZero, neutral |-> FZero,
                   positive |-> FZero, compound |-> FZero])
    ELSE iloc(frame, idxmax(frame))

\* frame.iloc[frame.compound.idxmax()]: a frame without the column has no
\* attribute "compound"; idxmax of an empty column raises ValueError
most_positive(frame) ==
    IF "compound" \notin frame.columns THEN Raised("AttributeError")
    ELSE IF Len(frame.rows) = 0 THEN Raised("ValueError")
    ELSE iloc(frame, idxmax(frame))

\* frame.iloc[frame.compound.idxmin()]
least_positive(frame) ==
    IF "compound" \notin frame.columns THEN Raised("AttributeError")
    ELSE IF Len(frame.rows) = 0 THEN Raised("ValueError")
    ELSE iloc(frame, idxmin(frame))

\* the group keys: the distinct values of the id column
group_keys(frame) == { frame.rows[i].id : i \in 1..Len(frame.rows) }

\* a pass that divides by the rows of the whole frame
group_count_all(frame, key) == Len(frame.rows)

\* the number of rows of a group
group_count(frame, key) ==
    Cardinality({ i \in 1..Len(frame.rows) : frame.rows[i].id = key })

\* a step that stores the row's value instead of adding it
kahan_step_overwrite(acc, val) == <<val, FZero>>

\* groupby's mean kernel, one row of one group: a compensated (Kahan) step of
\* the running sum, acc = <<sumx, compensation>>
kahan_step(acc, val) ==
    LET y == FSub(val, acc[2])
        t == FAdd(acc[1], y)
    IN  <<t, FSub(FSub(t, acc[1]), y)>>

\* the kernel's pass over the first i rows, in row order, for one group
RECURSIVE group_sum(_, _, _)
group_sum(frame, key, i) ==
    IF i = 0 THEN <<FZero, FZero>>
    ELSE LET acc == group_sum(frame, key, i - 1)
         IN  IF frame.rows[i].id # key THEN acc
             ELSE kahan_step(acc, frame.rows[i].compound)

\* frame[['id', 'compound']].groupby('id').mean(): KeyError when a column is
\* missing, else one mean per key
groupby_mean(frame) ==
    IF ~({"id", "compound"} \subseteq frame.columns)
    THEN [exc |-> "KeyError", means |-> <<>>]
    ELSE [exc |-> "",
          means |-> << [key \in group_keys(frame) |->
                          FDiv(group_sum(frame, key, Len(frame.rows))[1],
                               group_count(frame, key))] >>]

\* get_analyzer without the decorator: every call downloads and constructs
get_analyzer_undecorated(cache, count, lexicon) ==
    [cache |-> <<[id |-> count + 1, lexicon |-> lexicon]>>, count |-> count + 1]

\* @st.experimental_singleton get_analyzer(): the body runs when the cache is
\* empty and its result is cached; later calls return the cached object
get_analyzer(cache, count, lexicon) ==
    IF cache # <<>> THEN [cache |-> cache, count |-> count]
    ELSE [cache |-> <<[id |-> count + 1, lexicon |-> lexicon]>>, count |-> count + 1]

\* ---------------------------------------------------------------- the script
NoException == [type |-> "", at |-> ""]

Init ==
    /\ pc = "read_sql"
    /\ exception = NoException
    /\ singleton_cache = <<>>
    /\ initializations = 0
    /\ message = <<>>
    /\ analyzer = <<>>
    /\ scored_message = <<>>
    /\ most_positive_sent = <<>>
    /\ least_positive_sent = <<>>
    /\ most_positive_received = <<>>
    /\ least_positive_received = <<>>
    /\ compound_scores = <<>>

\* l.81-87: message = pd.read_sql(...), the table holding rows of the given kind
ReadSqlFrom(rows) ==
    /\ pc = "read_sql"
    /\ \E n \in 0..MaxLen :
         \E t \in [1..n -> rows] : message' = <<read_sql(Table(t))>>
    /\ pc' = "get_analyzer"
    /\ UNCHANGED <<exception, singleton_cache, initializations, analyzer,
                   scored_message, most_positive_sent,
                   least_positive_sent, most_positive_received,
                   least_positive_received, compound_scores>>

ReadSql == ReadSqlFrom(MessageRows)

ReadSqlWorded == ReadSqlFrom(WordedRows)

\* l.119: analyzer = get_analyzer()
GetAnalyzer ==
    /\ pc = "get_analyzer"
    /\ \E lexicon \in Lexicons :
         LET got == get_analyzer(singleton_cache, initializations, lexicon)
         IN  /\ singleton_cache' = got.cache
             /\ initializations' = got.count
             /\ analyzer' = got.cache
    /\ pc' = "apply"
    /\ UNCHANGED <<exception, message, scored_message, most_positive_sent, least_positive_sent, most_positive_received, least_positive_received, compound_scores>>

\* l.148: scored_message = message.apply(add_scores, axis=1)
Apply ==
    /\ pc = "apply"
    /\ scored_message' = <<apply(analyzer[1], message[1])>>
    /\ pc' = "extremes"
    /\ UNCHANGED <<exception, singleton_cache, initializations, message, analyzer,
                   most_positive_sent, least_positive_sent,
                   most_positive_received,
                   least_positive_received, compound_scores>>

\* l.169-190: the sent frame and its two extremes, then the received frame and
\* its two; the first statement that raises ends the run, the names bound before
\* it stay bound
Extremes ==
    /\ pc = "extremes"
    /\ LET sent == reset_index(loc(scored_message[1], 1))
           most_sent == most_positive(sent)
           least_sent == least_positive(sent)
           sent_ok == most_sent.exc = "" /\ least_sent.exc = ""
           received == reset_index(loc(scored_message[1], 0))
           most_received == most_positive(received)
           least_received == least_positive(received)
       IN  /\ most_positive_sent' = most_sent.row
           /\ least_positive_sent' =
                IF most_sent.exc = "" THEN least_sent.row ELSE <<>>
           /\ most_positive_received' = IF sent_ok THEN most_received.row ELSE <<>>
           /\ least_positive_received' =
                IF sent_ok /\ most_received.exc = "" THEN least_received.row ELSE <<>>
           /\ exception' =
                IF most_sent.exc # ""
                THEN [type |-> most_sent.exc, at |-> "most_positive_sent"]
                ELSE IF least_sent.exc # ""
                THEN [type |-> least_sent.exc, at |-> "least_positive_sent"]
                ELSE IF most_received.exc # ""
                THEN [type |-> most_received.exc, at |-> "most_positive_received"]
                ELSE IF least_received.exc # ""
                THEN [type |-> least_received.exc, at |-> "least_positive_received"]
                ELSE NoException
           /\ pc' = IF sent_ok /\ most_received.exc = "" /\ least_received.exc = ""
                    THEN "compound_scores"
                    ELSE "error"
    /\ UNCHANGED <<singleton_cache, initializations, message, analyzer,
                   scored_message, compound_scores>>

\* l.197: compound_scores = scored_message[['id', 'compound']].groupby('id').mean()
CompoundScores ==
    /\ pc = "compound_scores"
    /\ LET got == groupby_mean(scored_message[1])
       IN  /\ compound_scores' = got.means
           /\ exception' = IF got.exc = "" THEN NoException
                           ELSE [type |-> got.exc, at |-> "compound_scores"]
           /\ pc' = IF got.exc = "" THEN "done" ELSE "error"
    /\ UNCHANGED <<singleton_cache, initializations, message, analyzer,
                   scored_message, most_positive_sent,
                   least_positive_sent, most_positive_received,
                   least_positive_received>>

\* Streamlit runs the script again from the top: the script's names are
\* unbound again, the singleton cache lives on
Rerun ==
    /\ pc \in {"done", "error"}
    /\ pc' = "read_sql"
    /\ exception' = NoException
    /\ message' = <<>>
    /\ analyzer' = <<>>
    /\ scored_message' = <<>>
    /\ most_positive_sent' = <<>>
    /\ least_positive_sent' = <<>>
    /\ most_positive_received' = <<>>
    /\ least_positive_received' = <<>>
    /\ compound_scores' = <<>>
    /\ UNCHANGED <<singleton_cache, initializations>>

Next ==
    \/ ReadSql
    \/ GetAnalyzer
    \/ Apply
    \/ Extremes
    \/ CompoundScores
    \/ Rerun

Spec == Init /\ [][Next]_vars

\* the script run on the tables whose every text has words
NextWorded ==
    \/ ReadSqlWorded
    \/ GetAnalyzer
    \/ Apply
    \/ Extremes
    \/ CompoundScores
    \/ Rerun

SpecWorded == Init /\ [][NextWorded]_vars

\* ---------------------------------------------------------------- properties
Rows(wrapped) == wrapped[1].rows

\* the statement l.148 has completed in this run
Scored == scored_message # <<>>

\* the block l.169-190 has got as far as the sent, the received extremes
SentAttempted ==
    \/ pc \in {"compound_scores", "done"}
    \/ pc = "error" /\ exception.at # "compound_scores"

ReceivedAttempted ==
    \/ pc \in {"compound_scores", "done"}
    \/ pc = "error"
       /\ exception.at \in {"most_positive_received", "least_positive_received"}

\* positions (1-based) of the scored rows of one direction
Direction(flag) ==
    { i \in 1..Len(Rows(scored_message)) : Rows(scored_message)[i].is_from_me = flag }

\* positions (1-based) of the rows of one partner
Group(frame, key) == { i \in 1..Len(frame.rows) : frame.rows[i].id = key }

RECURSIVE SumOver(_, _)
SumOver(f, S) ==
    IF S = {} THEN 0
    ELSE LET x == CHOOSE y \in S : TRUE IN f[x] + SumOver(f, S \ {x})

\* v is the quotient of the exact sum of the group's compounds by their number,
\* up to the rounding of the additions and of the division (4 units in the last
\* place of the mean magnitude)
WithinRounding(v, frame, key) ==
    LET G == Group(frame, key)
        exact == SumOver([i \in G |-> frame.rows[i].compound], G)
        magnitude == SumOver([i \in G |-> Abs(frame.rows[i].compound)], G)
    IN  Abs(v * Cardinality(G) - exact) * SignificandLimit <= 4 * magnitude

Permutations(n) ==
    { p \in [1..n -> 1..n] : \A i, j \in 1..n : p[i] = p[j] => i = j }

Permuted(frame, p) ==
    Frame(frame.columns, frame.index, [i \in 1..Len(frame.rows) |-> frame.rows[p[i]]])

\* C1: apply(add_scores, axis=1) returns as many records as it is given, and
\* record i of the output has the text, sender flag, partner id and timestamp of
\* record i of the input.
C1_AnnotatePreservesRecords ==
    Scored =>
        LET rs == Rows(message)
            out == Rows(scored_message)
        IN  /\ Len(out) = Len(rs)
            /\ \A i \in 1..Len(rs) :
                 /\ out[i].text = rs[i].text
                 /\ out[i].is_from_me = rs[i].is_from_me
                 /\ out[i].id = rs[i].id
                 /\ out[i].date = rs[i].date

C1_Witness ==
    /\ Scored
    /\ Len(Rows(scored_message)) >= 3
    /\ Rows(scored_message)[1].text = None
    /\ Rows(scored_message)[2].text = "wow"
    /\ Rows(scored_message)[1].id # Rows(scored_message)[3].id

C3_EmptySubsetRaises ==
    /\ SentAttempted /\ Direction(1) = {} =>
         /\ pc = "error"
         /\ exception.type \in {"ValueError", "AttributeError"}
         /\ exception.at = "most_positive_sent"
         /\ most_positive_sent = <<>>
         /\ least_positive_sent = <<>>
    /\ ReceivedAttempted /\ Direction(0) = {} =>
         /\ pc = "error"
         /\ exception.type \in {"ValueError", "AttributeError"}
         /\ exception.at = "most_positive_received"
         /\ most_positive_received = <<>>
         /\ least_positive_received = <<>>

C3_Witness ==
    /\ pc = "error"
    /\ exception = [type |-> "ValueError", at |-> "most_positive_received"]
    /\ Direction(0) = {}
    /\ Direction(1) # {}
    /\ most_positive_sent # <<>>

\* the pick is the scored row at position i
Picks(pick, i) ==
    /\ pick # <<>>
    /\ pick[1].index = i - 1
    /\ pick[1].date = Rows(scored_message)[i].date
    /\ pick[1].text = Rows(scored_message)[i].text
    /\ pick[1].id = Rows(scored_message)[i].id

\* i is the first position of the direction whose compound no record of the
\* direction exceeds (sign 1), falls below (sign -1)
FirstExtreme(flag, sign, i) ==
    LET c(k) == sign * Rows(scored_message)[k].compound
    IN  /\ i \in Direction(flag)
        /\ \A k \in Direction(flag) : c(k) <= c(i)
        /\ \A k \in Direction(flag) : k < i => c(k) < c(i)

\* C4: among the records of a direction that share the maximum compound, the
\* most positive pick is the first in input order; among those that share the
\* minimum, the most negative pick is the first.
C4_FirstOfTiedExtremes ==
    /\ most_positive_sent # <<>> =>
         \E i \in Direction(1) : FirstExtreme(1, 1, i) /\ Picks(most_positive_sent, i)
    /\ least_positive_sent # <<>> =>
         \E i \in Direction(1) : FirstExtreme(1, -1, i) /\ Picks(least_positive_sent, i)
    /\ most_positive_received # <<>> =>
         \E i \in Direction(0) :
            FirstExtreme(0, 1, i) /\ Picks(most_positive_received, i)
    /\ least_positive_received # <<>> =>
         \E i \in Direction(0) :
            FirstExtreme(0, -1, i) /\ Picks(least_positive_received, i)

C4_Witness ==
    /\ pc = "done"
    /\ \E i, j \in Direction(1) :
         /\ i < j
         /\ Rows(scored_message)[i].compound = Rows(scored_message)[j].compound
         /\ Rows(scored_message)[i].text # Rows(scored_message)[j].text
         /\ FirstExtreme(1, 1, i)
         /\ Picks(most_positive_sent, i)
         /\ FirstExtreme(1, -1, i)
         /\ Picks(least_positive_sent, i)

\* C9: the records picked for a direction have that direction's sender flag,
\* and no record of the direction has a compound above the most positive pick
\* or below the most negative pick.
C9_ExtremesOfFilteredSubset ==
    /\ SentAttempted /\ Direction(1) # {} =>
         /\ most_positive_sent # <<>> /\ least_positive_sent # <<>>
         /\ most_positive_sent[1].is_from_me = 1
         /\ least_positive_sent[1].is_from_me = 1
         /\ \A k \in Direction(1) :
              /\ Rows(scored_message)[k].compound <= most_positive_sent[1].compound
              /\ Rows(scored_message)[k].compound >= least_positive_sent[1].compound
    /\ ReceivedAttempted /\ Direction(0) # {} =>
         /\ most_positive_received # <<>> /\ least_positive_received # <<>>
         /\ most_positive_received[1].is_from_me = 0
         /\ least_positive_received[1].is_from_me = 0
         /\ \A k \in Direction(0) :
              /\ Rows(scored_message)[k].compound <= most_positive_received[1].compound
              /\ Rows(scored_message)[k].compound >= least_positive_received[1].compound

C9_Witness ==
    /\ pc = "done"
    /\ Rows(scored_message)[1].is_from_me = 0
    /\ most_positive_sent[1].index >= 1
    /\ most_positive_sent[1].compound > least_positive_sent[1].compound
    /\ most_positive_received[1].compound > most_positive_sent[1].compound

Aggregated == compound_scores # <<>>

\* the ids that occur in the scored records
Partners == { Rows(scored_message)[i].id : i \in 1..Len(Rows(scored_message)) }

\* C5: the keys of the aggregation are exactly the partner ids that occur in the
\* scored records, and the value of a key is the mean of the compounds of all
\* the records with that id: their sum divided by their number, as floating
\* point computes it (a group of one record has that record's compound).
C5_PartnerMeans ==
    Aggregated =>
        /\ DOMAIN compound_scores[1] = Partners
        /\ \A key \in Partners :
             /\ WithinRounding(compound_scores[1][key], scored_message[1], key)
             /\ \A i \in Group(scored_message[1], key) :
                  Group(scored_message[1], key) = {i} =>
                     compound_scores[1][key] = Rows(scored_message)[i].compound

C5_Witness ==
    /\ Aggregated
    /\ Cardinality(DOMAIN compound_scores[1]) = 2
    /\ \E key \in Partners :
         /\ Cardinality(Group(scored_message[1], key)) = 2
         /\ compound_scores[1][key] # FZero
         /\ \A i \in Group(scored_message[1], key) :
              compound_scores[1][key] # Rows(scored_message)[i].compound

\* C6: the sizes of the groups of the aggregation add up to the number of
\* scored records, which is the number of loaded records, and every scored
\* record's id is a key of the result.
C6_EveryRecordInOneGroup ==
    Aggregated =>
        /\ SumOver([key \in DOMAIN compound_scores[1] |->
                      group_count(scored_message[1], key)],
                   DOMAIN compound_scores[1])
             = Len(Rows(scored_message))
        /\ Len(Rows(scored_message)) = Len(Rows(message))
        /\ \A i \in 1..Len(Rows(message)) :
             Rows(message)[i].id \in DOMAIN compound_scores[1]

C6_Witness ==
    /\ Aggregated
    /\ Len(Rows(message)) >= 3
    /\ Cardinality(DOMAIN compound_scores[1]) = 2
    /\ \E i \in 1..Len(Rows(message)) : Rows(message)[i].text = None

\* the aggregation of the scored records taken in the order p
MeansOf(p) == groupby_mean(Permuted(scored_message[1], p)).means

\* C7 (as claimed): the aggregation of every permutation of the scored records
\* is the same mapping.
C7_OrderIndependent ==
    Aggregated =>
        \A p \in Permutations(Len(Rows(scored_message))) : MeansOf(p) = compound_scores

\* C7 (amended): the aggregation of every permutation of the scored records has
\* the same keys, and each of its values is the exact mean of the group up to
\* the rounding of the floating point sum and division; a group of at most two
\* records has the same value in every order.
C7_OrderIndependentUpToRounding ==
    Aggregated =>
        \A p \in Permutations(Len(Rows(scored_message))) :
            \A means \in {MeansOf(p)[1]} :
                /\ DOMAIN means = DOMAIN compound_scores[1]
                /\ \A key \in DOMAIN compound_scores[1] :
                     /\ WithinRounding(means[key], scored_message[1], key)
                     /\ Cardinality(Group(scored_message[1], key)) <= 2 =>
                          means[key] = compound_scores[1][key]

C7_Witness ==
    /\ Aggregated
    /\ \E p \in Permutations(Len(Rows(scored_message))) :
         \E key \in DOMAIN compound_scores[1] :
            MeansOf(p)[1][key] # compound_scores[1][key]

\* C8 (as claimed): a run over a table without records ends with an empty
\* mapping and without an exception; and no group of any result is empty.
C8_EmptyInputEmptyMapping ==
    /\ pc \in {"done", "error"} /\ Len(Rows(message)) = 0 =>
         /\ pc = "done"
         /\ exception = NoException
         /\ Aggregated
         /\ DOMAIN compound_scores[1] = {}
    /\ Aggregated =>
         \A key \in DOMAIN compound_scores[1] :
            group_count(scored_message[1], key) >= 1

\* C10: the body of get_analyzer runs at most once in the process; a call made
\* when the analyzer is cached returns the cached analyzer and neither runs the
\* body nor changes the cache; the analyzer a run holds is the first one made.
C10_AnalyzerInitializedOnce ==
    /\ [](/\ initializations <= 1
          /\ singleton_cache # <<>> => initializations = 1
          /\ analyzer # <<>> => analyzer = singleton_cache /\ analyzer[1].id = 1)
    /\ [][/\ singleton_cache # <<>> => singleton_cache' = singleton_cache
          /\ pc = "get_analyzer" /\ singleton_cache # <<>> /\ pc' = "apply" =>
               /\ analyzer' = singleton_cache
               /\ initializations' = initializations]_vars

\* a run after the first is about to call get_analyzer, the analyzer being cached
C10_Witness ==
    /\ pc = "get_analyzer"
    /\ message # <<>>
    /\ analyzer = <<>>
    /\ singleton_cache # <<>>
    /\ singleton_cache[1].id = 1
    /\ initializations = 1

====
